---- MODULE Spec2Model ----
(***************************************************************************)
(* The binary serializer: the primitive codec (common.rs), the byte        *)
(* encoder (encoder.rs), the byte decoder (decoder.rs, v2/decoder.rs) and  *)
(* the procedures the derive macro generates (binary_serializer_derive).   *)
(*                                                                         *)
(* An integer of w bytes is written as its base-256 digits: a function     *)
(* from the power k in 0..w-1 to the digit that multiplies 256^k.  Signed  *)
(* integers and floats are their bit patterns.  A byte buffer is a         *)
(* sequence of bytes; buffer positions are zero-based as in the source, so *)
(* position i of the source is element i+1 of the sequence.                *)
(***************************************************************************)
EXTENDS Integers, Sequences, FiniteSets, TLC

\* ------------------------------------------------------------------ bounds
\* The longest log of primitive reads one decoder takes in the model.
MaxReads == 2
\* The longest buffer a live encoder grows to by single encode calls.
MaxEncLen == 4

Byte == 0..255
Endians == {"Big", "Little"}

\* The build target: its byte order (cfg!(target_endian)) and the size of
\* usize in bytes.
Hosts == [endian : Endians, ptr : {4, 8}]

\* ------------------------------------------------------------ digit helpers
Pow256(k) == CASE k = 0 -> 1 [] k = 1 -> 256 [] k = 2 -> 65536 [] OTHER -> 16777216

\* The w-byte integer n, for a number n the model can write down (n < 2^31).
Num(n, w) == [k \in 0..(w - 1) |-> IF k < 4 THEN (n \div Pow256(k)) % 256 ELSE 0]

\* The number a digit function stands for when it is below 2^24, else -1.
RECURSIVE SumDigits(_, _)
SumDigits(x, k) == IF k < 0 THEN 0 ELSE x[k] * Pow256(k) + SumDigits(x, k - 1)

Width(x) == Cardinality(DOMAIN x)

Small(x) == \A k \in DOMAIN x : k >= 3 => x[k] = 0

AsNat(x) == IF Small(x) THEN SumDigits(x, IF Width(x) > 3 THEN 2 ELSE Width(x) - 1) ELSE -1

Reverse(s) == [i \in 1..Len(s) |-> s[Len(s) + 1 - i]]

SubSeqOrEmpty(s, a, b) == IF a > b THEN <<>> ELSE SubSeq(s, a, b)

\* `value as T` between unsigned integers: keep the low digits, zero-extend.
Cast(x, w) == [k \in 0..(w - 1) |-> IF k \in DOMAIN x THEN x[k] ELSE 0]

\* ------------------------------------------------------------- common.rs
ScalarNames == {"u8", "u16", "u32", "u64", "u128",
                "i8", "i16", "i32", "i64", "i128", "f32", "f64"}

\* size_of::<T>() of a scalar primitive.
size_of_scalar(name) ==
  CASE name \in {"u8", "i8", "bool"} -> 1
    [] name \in {"u16", "i16"} -> 2
    [] name \in {"u32", "i32", "f32"} -> 4
    [] name \in {"u64", "i64", "f64"} -> 8
    [] name \in {"u128", "i128"} -> 16

\* EndianValue::SIZE: size_of::<Self>() by default, size_of::<u64>() and
\* size_of::<i64>() for usize and isize.
SIZE(name) ==
  CASE name = "usize" -> size_of_scalar("u64")
    [] name = "isize" -> size_of_scalar("i64")
    [] OTHER -> size_of_scalar(name)

to_bytes_le(x) == [i \in 1..Width(x) |-> x[i - 1]]
to_bytes_be(x) == [i \in 1..Width(x) |-> x[Width(x) - i]]
from_bytes_le(bytes) == [k \in 0..(Len(bytes) - 1) |-> bytes[k + 1]]
from_bytes_be(bytes) == [k \in 0..(Len(bytes) - 1) |-> bytes[Len(bytes) - k]]

from_bytes_of(endian, bytes) ==
  IF endian = "Big" THEN from_bytes_be(bytes) ELSE from_bytes_le(bytes)

to_bytes_of(x, endian) ==
  IF endian = "Big" THEN to_bytes_be(x) ELSE to_bytes_le(x)

\* The standard library's to_ne_bytes: the target's own byte order.
to_ne_bytes(x, host) ==
  IF host.endian = "Big" THEN to_bytes_be(x) ELSE to_bytes_le(x)

\* ------------------------------------------------------------------ types
\* A type is a record whose field k names its kind: a scalar name, "usize",
\* "isize", "bool", "string", "vec" (of), "map" (key, val), "tuple" (fields),
\* "struct" (fields; a tuple or unit struct, its value the sequence of its
\* fields), "named" (names and fields; a struct with named fields, its value
\* a record) or "enum" (variants, each its field types).
Ty(name) == [k |-> name]
VecOf(T) == [k |-> "vec", of |-> T]
MapOf(K, V) == [k |-> "map", key |-> K, val |-> V]
TupleOf(fields) == [k |-> "tuple", fields |-> fields]
StructOf(fields) == [k |-> "struct", fields |-> fields]
NamedOf(names, fields) == [k |-> "named", names |-> names, fields |-> fields]
EnumOf(variants) == [k |-> "enum", variants |-> variants]

\* The map entry pairing of common.rs: a key and a value, in that order.
MapEntry(K, V) == [k |-> "entry", fields |-> <<K, V>>]

Max(a, b) == IF a >= b THEN a ELSE b

RECURSIVE SumSeq(_)
SumSeq(s) == IF s = <<>> THEN 0 ELSE Head(s) + SumSeq(Tail(s))

RECURSIVE MaxSeq(_)
MaxSeq(s) == IF s = <<>> THEN 0 ELSE Max(Head(s), MaxSeq(Tail(s)))

RoundUp(n, a) == IF a = 0 THEN n ELSE ((n + a - 1) \div a) * a

\* std::mem::align_of and size_of of a type on the target, as rustc lays
\* the type out: fields packed to the largest alignment, an enum as its tag
\* and its largest variant.
RECURSIVE align_of(_, _)
align_of(T, host) ==
  CASE T.k \in ScalarNames -> IF size_of_scalar(T.k) > 8 THEN 8 ELSE size_of_scalar(T.k)
    [] T.k = "bool" -> 1
    [] T.k \in {"usize", "isize", "string", "vec", "map"} -> host.ptr
    [] T.k \in {"tuple", "struct", "named", "entry"} ->
         Max(1, MaxSeq([i \in 1..Len(T.fields) |-> align_of(T.fields[i], host)]))
    [] T.k = "enum" ->
         Max(1, MaxSeq([i \in 1..Len(T.variants) |->
                  align_of(StructOf(T.variants[i]), host)]))

RECURSIVE size_of(_, _)
size_of(T, host) ==
  CASE T.k \in ScalarNames \cup {"bool"} -> size_of_scalar(T.k)
    [] T.k \in {"usize", "isize"} -> host.ptr
    [] T.k \in {"string", "vec"} -> 3 * host.ptr
    [] T.k = "map" -> 16 + 4 * host.ptr
    [] T.k \in {"tuple", "struct", "named", "entry"} ->
         RoundUp(SumSeq([i \in 1..Len(T.fields) |-> size_of(T.fields[i], host)]),
                 align_of(T, host))
    [] T.k = "enum" ->
         LET payload == MaxSeq([i \in 1..Len(T.variants) |->
                          size_of(StructOf(T.variants[i]), host)])
         IN IF Len(T.variants) = 0 THEN 0
            ELSE IF Len(T.variants) = 1 THEN payload
            ELSE RoundUp(align_of(T, host) + payload, align_of(T, host))

\* ----------------------------------------------------------------- strings
\* A String is the sequence of its Unicode scalar values; a UTF-16 code unit
\* is a number below 65536.
IsHigh(u) == 55296 <= u /\ u <= 56319
IsLow(u) == 56320 <= u /\ u <= 57343

\* str::encode_utf16
RECURSIVE encode_utf16(_)
encode_utf16(s) ==
  IF s = <<>> THEN <<>>
  ELSE LET c == Head(s) IN
       (IF c < 65536 THEN <<c>>
        ELSE <<55296 + ((c - 65536) \div 1024), 56320 + ((c - 65536) % 1024)>>)
       \o encode_utf16(Tail(s))

\* String::from_utf16: ok and the string, or not ok on an unpaired surrogate.
RECURSIVE from_utf16(_)
from_utf16(units) ==
  IF units = <<>> THEN [ok |-> TRUE, s |-> <<>>]
  ELSE LET u == Head(units) IN
       IF IsLow(u) THEN [ok |-> FALSE, s |-> <<>>]
       ELSE IF IsHigh(u)
       THEN IF Len(units) >= 2 /\ IsLow(units[2])
            THEN LET rest == from_utf16(Tail(Tail(units))) IN
                 [ok |-> rest.ok,
                  s |-> <<65536 + (u - 55296) * 1024 + (units[2] - 56320)>> \o rest.s]
            ELSE [ok |-> FALSE, s |-> <<>>]
       ELSE LET rest == from_utf16(Tail(units)) IN
            [ok |-> rest.ok, s |-> <<u>> \o rest.s]

\* ------------------------------------------------------------- encoder.rs
\* A ByteEncoder is its buffer; panic records that an encode call unwound.
ByteEncoder_new == [bytes |-> <<>>, panic |-> FALSE]

\* ByteTracker::begin and ByteTracker::end
ByteTracker_begin(bytes) == [start |-> Len(bytes)]
ByteTracker_end(tracker, new_bytes) == Len(new_bytes) - tracker.start

\* Vec::write of a byte array: the bytes go to the end of the buffer.
write(enc, bs) == [enc EXCEPT !.bytes = @ \o bs]

\* encode_u8 .. encode_f64 of impl Encoder for ByteEncoder
encode_scalar(enc, x, host) == write(enc, to_ne_bytes(x, host))

\* A usize written at its own size, as usize::to_ne_bytes would.
encode_usize_native(enc, x, host) == encode_scalar(enc, x, host)

\* Encoder::encode_usize and encode_isize: value as u64, value as i64.
encode_usize(enc, x, host) == encode_scalar(enc, Cast(x, 8), host)

\* Encoding a bool, which neither encoder.rs nor lib.rs has: one byte, 0 for
\* false and a non-zero byte, here t, for true.
encode_bool(enc, value, t) == write(enc, <<IF value THEN t ELSE 0>>)

\* Vec::insert(index, b)
insert(bytes, index, b) ==
  SubSeqOrEmpty(bytes, 1, index) \o <<b>> \o SubSeqOrEmpty(bytes, index + 1, Len(bytes))

\* for b in bs { bytes.insert(index, b) }
RECURSIVE insert_each(_, _, _)
insert_each(bytes, index, bs) ==
  IF bs = <<>> THEN bytes
  ELSE insert_each(insert(bytes, index, Head(bs)), index, Tail(bs))

\* The iteration order of a HashMap: any order of its keys; the model takes
\* one order and its reverse, by the hash seed the map drew (value.seed).
RECURSIVE SeqOfSet(_)
SeqOfSet(S) ==
  IF S = {} THEN <<>>
  ELSE LET x == CHOOSE y \in S : TRUE IN <<x>> \o SeqOfSet(S \ {x})

iter(value) ==
  LET keys == SeqOfSet(DOMAIN value.map)
      order == IF value.seed = 0 THEN keys ELSE Reverse(keys)
  IN [i \in 1..Len(order) |-> <<order[i], value.map[order[i]]>>]

RECURSIVE encode(_, _, _, _)
RECURSIVE encode_each(_, _, _, _)
RECURSIVE encode_fields(_, _, _, _)

\* ByteEncoder::encode_slice: the elements first, then two usize words put in
\* front of them at the position the slice started at.
encode_slice(T, value, enc, host) ==
  LET total_bytes0 == ByteTracker_begin(enc.bytes)
      after == encode_each(T, value, enc, host)
      index == total_bytes0.start
      total_bytes == ByteTracker_end(total_bytes0, after.bytes)
      must_panic == Len(value) = 0 /\ total_bytes # 0
      bytes_per_element == IF Len(value) # 0 THEN total_bytes \div Len(value) ELSE 0
      first == insert_each(after.bytes, index,
                 Reverse(to_ne_bytes(Num(bytes_per_element, host.ptr), host)))
      second == insert_each(first, index,
                  Reverse(to_ne_bytes(Num(total_bytes, host.ptr), host)))
  IN IF after.panic \/ must_panic THEN [after EXCEPT !.panic = TRUE]
     ELSE [after EXCEPT !.bytes = second]

\* for value in value { value.encode(self) }
encode_each(T, value, enc, host) ==
  IF value = <<>> \/ enc.panic THEN enc
  ELSE encode_each(T, Tail(value), encode(T, Head(value), enc, host), host)

\* ByteEncoder::encode_string
encode_string(value, enc, host) ==
  LET vec == encode_utf16(value)
  IN encode_slice(Ty("u16"), [i \in 1..Len(vec) |-> Num(vec[i], 2)], enc, host)

\* ByteEncoder::encode_map
encode_map(K, V, value, enc, host) ==
  encode_slice(MapEntry(K, V), iter(value), enc, host)

\* The generated struct, tuple and map entry encoders: encode_value on each
\* field in declared order.
encode_fields(Ts, values, enc, host) ==
  IF Ts = <<>> \/ enc.panic THEN enc
  ELSE encode_fields(Tail(Ts), Tail(values),
                     encode(Head(Ts), Head(values), enc, host), host)

\* A named-struct encoder that walks the fields from the last to the first.
encode_named_reversed(T, value, enc, host) ==
  encode_fields(Reverse(T.fields),
                [i \in 1..Len(T.names) |-> value[T.names[Len(T.names) + 1 - i]]],
                enc, host)

\* The generated encoder of a struct with named fields:
\* encoder.encode_value(&self.name) for each name in declared order.
encode_named(T, value, enc, host) ==
  encode_fields(T.fields, [i \in 1..Len(T.names) |-> value[T.names[i]]], enc, host)

\* The generated enum encoder: the variant's index as usize, then its fields.
encode_enum(T, value, enc, host) ==
  encode_fields(T.variants[value.variant + 1], value.fields,
                encode_usize(enc, Num(value.variant, host.ptr), host), host)

\* Serializer::encode of each type, which ByteEncoder::encode_value calls.
encode(T, value, enc, host) ==
  CASE T.k \in ScalarNames -> encode_scalar(enc, value, host)
    [] T.k \in {"usize", "isize"} -> encode_usize(enc, value, host)
    [] T.k = "string" -> encode_string(value, enc, host)
    [] T.k = "vec" -> encode_slice(T.of, value, enc, host)
    [] T.k = "map" -> encode_map(T.key, T.val, value, enc, host)
    [] T.k \in {"tuple", "struct", "entry"} -> encode_fields(T.fields, value, enc, host)
    [] T.k = "named" -> encode_named(T, value, enc, host)
    [] T.k = "enum" -> encode_enum(T, value, enc, host)

\* ToBytes::to_bytes
to_bytes(T, value, host) == encode(T, value, ByteEncoder_new, host).bytes

\* ------------------------------------------------------- lib.rs, encoder
\* The encoder of lib.rs has the scalar encoders of encoder.rs (to_ne_bytes)
\* and encodes scalars, strings and slices; it has no map, tuple or derive.
RECURSIVE v0_Serializer(_)
v0_Serializer(T) ==
  \/ T.k \in ScalarNames \cup {"usize", "isize", "string"}
  \/ T.k = "vec" /\ v0_Serializer(T.of)

RECURSIVE v0_encode(_, _, _, _)
RECURSIVE v0_encode_each(_, _, _, _)

\* lib.rs ByteEncoder::encode_slice: checked_div by the number of elements,
\* and a panic when there is none.
v0_encode_slice(T, value, enc, host) ==
  LET total_bytes0 == ByteTracker_begin(enc.bytes)
      after == v0_encode_each(T, value, enc, host)
      index == total_bytes0.start
      total_bytes == ByteTracker_end(total_bytes0, after.bytes)
      must_panic == Len(value) = 0
      bytes_per_element == IF Len(value) # 0 THEN total_bytes \div Len(value) ELSE 0
      first == insert_each(after.bytes, index,
                 Reverse(to_ne_bytes(Num(bytes_per_element, host.ptr), host)))
      second == insert_each(first, index,
                  Reverse(to_ne_bytes(Num(total_bytes, host.ptr), host)))
  IN IF after.panic \/ must_panic THEN [after EXCEPT !.panic = TRUE]
     ELSE [after EXCEPT !.bytes = second]

\* for value in value { value.encode(self) }
v0_encode_each(T, value, enc, host) ==
  IF value = <<>> \/ enc.panic THEN enc
  ELSE v0_encode_each(T, Tail(value), v0_encode(T, Head(value), enc, host), host)

\* lib.rs ByteEncoder::encode_string
v0_encode_string(value, enc, host) ==
  LET vec == encode_utf16(value)
  IN v0_encode_slice(Ty("u16"), [i \in 1..Len(vec) |-> Num(vec[i], 2)], enc, host)

\* lib.rs Serializer::encode of each type
v0_encode(T, value, enc, host) ==
  CASE T.k \in ScalarNames -> encode_scalar(enc, value, host)
    [] T.k \in {"usize", "isize"} -> encode_usize(enc, value, host)
    [] T.k = "string" -> v0_encode_string(value, enc, host)
    [] T.k = "vec" -> v0_encode_slice(T.of, value, enc, host)

\* ------------------------------------------------------------- decoder.rs
\* DecoderError.  custom is what the generated enum decoder returns; the
\* constructor is not in decoder.rs and is taken as one more error kind.
NoError == [kind |-> "None", type_name |-> "", index |-> 0, msg |-> ""]
not_enough_bytes(type_name, index) ==
  [kind |-> "NotEnoughBytes", type_name |-> type_name, index |-> index, msg |-> ""]
InvalidUTF16 == [kind |-> "InvalidUTF16", type_name |-> "", index |-> 0, msg |-> ""]
custom(msg) == [kind |-> "Custom", type_name |-> "", index |-> 0, msg |-> msg]

\* ByteDecoder::new.  log is the history of read_bytes calls on the decoder:
\* the type asked for, the cursor at the call and whether it succeeded.
ByteDecoder_new(bytes, endian) ==
  [bytes |-> bytes, endian |-> endian, index |-> 0, log |-> <<>>]

\* What a decode call comes to: Ok(val), Err(err), or the thread unwinding
\* (Panic) or never finishing in any useful time (Hang); d is the decoder
\* the call leaves behind.
Ok(val, d) == [kind |-> "Ok", val |-> val, err |-> NoError, d |-> d]
Err(err, d) == [kind |-> "Err", val |-> <<>>, err |-> err, d |-> d]
Panic(msg, d) == [kind |-> "Panic", val |-> <<>>, err |-> custom(msg), d |-> d]
Hang(d) == [kind |-> "Hang", val |-> <<>>, err |-> NoError, d |-> d]

Logged(d, type_name, ok) ==
  [d EXCEPT !.log = Append(@, [type_name |-> type_name, at |-> d.index, ok |-> ok])]

\* A read that moves the cursor before it checks the bounds.
read_bytes_advancing(d, T) ==
  IF d.index + SIZE(T) <= Len(d.bytes)
  THEN Ok(from_bytes_of(d.endian, SubSeq(d.bytes, d.index + 1, d.index + SIZE(T))),
          [Logged(d, T, TRUE) EXCEPT !.index = @ + SIZE(T)])
  ELSE Err(not_enough_bytes(T, d.index + SIZE(T)),
           [Logged(d, T, FALSE) EXCEPT !.index = @ + SIZE(T)])

\* ByteDecoder::read_bytes::<T>
read_bytes(d, T) ==
  IF d.index + SIZE(T) <= Len(d.bytes)
  THEN Ok(from_bytes_of(d.endian, SubSeq(d.bytes, d.index + 1, d.index + SIZE(T))),
          [Logged(d, T, TRUE) EXCEPT !.index = @ + SIZE(T)])
  ELSE Err(not_enough_bytes(T, d.index), Logged(d, T, FALSE))

\* Decoder::decode_usize and decode_isize: decode_u64, then `it as usize`.
decode_usize(d, host) ==
  LET r == read_bytes(d, "u64")
  IN IF r.kind = "Ok" THEN [r EXCEPT !.val = Cast(@, host.ptr)] ELSE r
decode_isize(d, host) ==
  LET r == read_bytes(d, "i64")
  IN IF r.kind = "Ok" THEN [r EXCEPT !.val = Cast(@, host.ptr)] ELSE r

\* A decode_bool that takes only the byte 1 for true.
decode_bool_is_one(d) ==
  LET r == read_bytes(d, "u8")
  IN IF r.kind = "Ok" THEN [r EXCEPT !.val = (@[0] = 1)] ELSE r

\* Decoder::decode_bool: decode_u8, then `it != 0`.
decode_bool(d) ==
  LET r == read_bytes(d, "u8")
  IN IF r.kind = "Ok" THEN [r EXCEPT !.val = (@[0] # 0)] ELSE r

\* The carry into digit k of len * size.
RECURSIVE CarryInto(_, _, _)
CarryInto(len, size, k) ==
  IF k = 0 THEN 0 ELSE (len[k - 1] * size + CarryInto(len, size, k - 1)) \div 256

\* Vec::with_capacity(len) panics ("capacity overflow") when the bytes to
\* reserve, len * size_of::<T>(), exceed isize::MAX; a zero-sized element
\* reserves nothing.
capacity_overflow(len, size) ==
  /\ size > 0
  /\ len[Width(len) - 1] * size + CarryInto(len, size, Width(len) - 1) >= 128

\* An insert that keeps the value a key already has.
RECURSIVE insert_all_keeping(_, _)
insert_all_keeping(map, entries) ==
  IF entries = <<>> THEN map
  ELSE LET e == Head(entries) IN
       insert_all_keeping([key \in (DOMAIN map) \cup {e[1]} |->
                     IF key \in DOMAIN map THEN map[key] ELSE e[2]], Tail(entries))

\* HashMap::insert of each entry in order: the last entry of a key wins.
RECURSIVE insert_all(_, _)
insert_all(map, entries) ==
  IF entries = <<>> THEN map
  ELSE LET e == Head(entries) IN
       insert_all([key \in (DOMAIN map) \cup {e[1]} |->
                     IF key = e[1] THEN e[2] ELSE map[key]], Tail(entries))

RECURSIVE decode(_, _, _)
RECURSIVE decode_loop(_, _, _, _, _, _)
RECURSIVE decode_fields(_, _, _, _)

\* A loop that stops at the first element that fails and keeps what it has.
decode_loop_swallowing(T, d, n, vec, huge, host) ==
  IF n = 0 THEN (IF huge THEN Hang(d) ELSE Ok(vec, d))
  ELSE LET r == decode(T, d, host) IN
       IF r.kind # "Ok" THEN Ok(vec, r.d)
       ELSE decode_loop(T, r.d, n - 1, Append(vec, r.val), huge, host)

\* for _ in 0..len { vec.push(T::decode(self)?) }: n rounds are left.  A len
\* too large to count runs one round more than the input has bytes: an
\* element that reads any byte fails before that, and if none failed the
\* elements read nothing and the loop goes on for the whole of len.
decode_loop(T, d, n, vec, huge, host) ==
  IF n = 0 THEN (IF huge THEN Hang(d) ELSE Ok(vec, d))
  ELSE LET r == decode(T, d, host) IN
       IF r.kind # "Ok" THEN r
       ELSE decode_loop(T, r.d, n - 1, Append(vec, r.val), huge, host)

\* Decoder::decode_slice::<T>
decode_slice(T, d, host) ==
  LET len == decode_usize(d, host) IN
  IF len.kind # "Ok" THEN len
  ELSE IF capacity_overflow(len.val, size_of(T, host)) THEN Panic("capacity overflow", len.d)
  ELSE IF Small(len.val) THEN decode_loop(T, len.d, AsNat(len.val), <<>>, FALSE, host)
  ELSE decode_loop(T, len.d, Len(d.bytes) + 1, <<>>, TRUE, host)

\* Decoder::decode_string
decode_string(d, host) ==
  LET data == decode_slice(Ty("u16"), d, host) IN
  IF data.kind # "Ok" THEN data
  ELSE LET s == from_utf16([i \in 1..Len(data.val) |-> AsNat(data.val[i])]) IN
       IF s.ok THEN Ok(s.s, data.d) ELSE Err(InvalidUTF16, data.d)

\* Decoder::decode_map::<K, V>
decode_map(K, V, d, host) ==
  LET entries == decode_slice(MapEntry(K, V), d, host) IN
  IF entries.kind # "Ok" THEN entries
  ELSE Ok(insert_all(<<>>, entries.val), entries.d)

\* The generated struct decoder, the tuple decoder and MapEntry::decode:
\* decode_value()? for each field in declared order.
decode_fields(Ts, d, acc, host) ==
  IF Ts = <<>> THEN Ok(acc, d)
  ELSE LET r == decode(Head(Ts), d, host) IN
       IF r.kind # "Ok" THEN r
       ELSE decode_fields(Tail(Ts), r.d, Append(acc, r.val), host)

\* The generated decoder of a struct with named fields:
\* Ok(Self { name: decoder.decode_value()?, .. }), the names in declared order.
decode_named(T, d, host) ==
  LET r == decode_fields(T.fields, d, <<>>, host) IN
  IF r.kind # "Ok" THEN r
  ELSE [r EXCEPT !.val = [n \in {T.names[i] : i \in DOMAIN T.names} |->
                            r.val[CHOOSE i \in DOMAIN T.names : T.names[i] = n]]]

\* The generated enum decoder: the index as usize, then the fields of the
\* variant at that index, or the custom error when no variant has it.
decode_enum(T, d, host) ==
  LET index == decode_usize(d, host) IN
  IF index.kind # "Ok" THEN index
  ELSE IF Small(index.val) /\ AsNat(index.val) < Len(T.variants)
  THEN LET fields == decode_fields(T.variants[AsNat(index.val) + 1], index.d, <<>>, host) IN
       IF fields.kind # "Ok" THEN fields
       ELSE Ok([variant |-> AsNat(index.val), fields |-> fields.val], fields.d)
  ELSE Err(custom("Invalid Enum"), index.d)

\* Deserializer::decode of each type, which Decoder::decode_value calls.
decode(T, d, host) ==
  CASE T.k \in ScalarNames -> read_bytes(d, T.k)
    [] T.k = "usize" -> decode_usize(d, host)
    [] T.k = "isize" -> decode_isize(d, host)
    [] T.k = "bool" -> decode_bool(d)
    [] T.k = "string" -> decode_string(d, host)
    [] T.k = "vec" -> decode_slice(T.of, d, host)
    [] T.k = "map" -> decode_map(T.key, T.val, d, host)
    [] T.k \in {"tuple", "struct", "entry"} -> decode_fields(T.fields, d, <<>>, host)
    [] T.k = "named" -> decode_named(T, d, host)
    [] T.k = "enum" -> decode_enum(T, d, host)

\* FromBytes::from_bytes
from_bytes(T, bytes, endian, host) == decode(T, ByteDecoder_new(bytes, endian), host)

\* ------------------------------------------------------- lib.rs, decoder
\* Arithmetic on the digits of a number as a sequence, the lowest first:
\* a * m + carry for a small m (one digit longer than a), a < b and
\* a - b - borrow for a >= b (of one length).
RECURSIVE Times(_, _, _)
Times(a, m, carry) ==
  IF a = <<>> THEN <<carry>>
  ELSE LET p == a[1] * m + carry
       IN <<p % 256>> \o Times(Tail(a), m, p \div 256)
LessSeq(a, b) ==
  \E k \in 1..Len(a) : a[k] < b[k] /\ \A j \in (k + 1)..Len(a) : a[j] = b[j]
RECURSIVE Minus(_, _, _)
Minus(a, b, borrow) ==
  IF a = <<>> THEN <<>>
  ELSE LET d == a[1] - b[1] - borrow
       IN <<d % 256>> \o Minus(Tail(a), Tail(b), IF d < 0 THEN 1 ELSE 0)

\* The three digits of s around the place t, as a number.
Lead(s, t) ==
  (IF t + 1 <= Len(s) THEN s[t + 1] * 65536 ELSE 0) + s[t] * 256
  + (IF t > 1 THEN s[t - 1] ELSE 0)

\* The one digit m with y * m <= r < y * (m + 1), for r < y * 256: it lies
\* between the quotients of the leading digits of r by those of y, rounded
\* up and down.
QuotientDigit(r, y) ==
  LET t == CHOOSE k \in 1..Len(y) : y[k] # 0 /\ \A j \in (k + 1)..Len(y) : y[j] = 0
  IN CHOOSE m \in (Lead(r, t) \div (Lead(y, t) + 1))..(Lead(r, t) \div Lead(y, t)) :
       ~LessSeq(r, Times(y, m, 0)) /\ LessSeq(r, Times(y, m + 1, 0))

\* Long division, digit by digit: xs are the digits of the dividend still
\* to bring down, the highest first, q the quotient and rem the remainder of
\* those brought down; r is rem with the next digit brought down.
RECURSIVE DivStep(_, _, _, _)
DivStep(xs, y, q, rem) ==
  IF xs = <<>> THEN q
  ELSE CHOOSE rest \in
         {DivStep(Tail(xs), y, <<QuotientDigit(r, y)>> \o q,
                  SubSeq(Minus(r, Times(y, QuotientDigit(r, y), 0), 0), 1, Len(y))) :
            r \in {<<Head(xs)>> \o rem}} : TRUE

\* x / y of two usize, y not zero.
Div(x, y) ==
  CHOOSE q \in
    {Cast(from_bytes_le(DivStep(xs, ys, <<>>, [i \in 1..Len(ys) |-> 0])), Width(x)) :
       xs \in {to_bytes_be(x) \o <<>>}, ys \in {to_bytes_le(y) \o <<0>>}} : TRUE

\* lib.rs ByteDecoder::new: the decoder has no endianness and reads in the
\* target's own byte order, which is what its endian field holds here.
v0_ByteDecoder_new(bytes, host) == ByteDecoder_new(bytes, host.endian)

\* lib.rs ByteDecoder::next_bytes_n::<N>: the slice index panics when the
\* input is too short, before the cursor moves.
v0_next_bytes_n(d, N) ==
  IF d.index + N <= Len(d.bytes)
  THEN Ok(SubSeq(d.bytes, d.index + 1, d.index + N), [d EXCEPT !.index = @ + N])
  ELSE Panic("range end index out of range", d)

\* T::from_ne_bytes of the bytes a read returned, and `as usize` of the
\* number a read returned.
from_ne_bytes(r, host) ==
  IF r.kind = "Ok" THEN [r EXCEPT !.val = from_bytes_of(host.endian, @)] ELSE r
as_usize(r, host) ==
  IF r.kind = "Ok" THEN [r EXCEPT !.val = Cast(@, host.ptr)] ELSE r

\* lib.rs decode_u8 .. decode_f64: T::from_ne_bytes(self.next_bytes_n::<N>())
v0_decode_scalar(d, name, host) ==
  from_ne_bytes(v0_next_bytes_n(d, size_of_scalar(name)), host)

\* lib.rs decode_usize and decode_isize: decode_u64() as usize
v0_decode_usize(d, host) == as_usize(v0_decode_scalar(d, "u64", host), host)

RECURSIVE v0_decode(_, _, _)

\* lib.rs: for _ in 0..len { vec.push(T::decode(self)) }
RECURSIVE v0_decode_loop(_, _, _, _, _)
v0_decode_loop(T, d, n, vec, host) ==
  IF n = 0 THEN Ok(vec, d)
  ELSE LET r == v0_decode(T, d, host) IN
       IF r.kind # "Ok" THEN r
       ELSE v0_decode_loop(T, r.d, n - 1, Append(vec, r.val), host)

\* lib.rs decode_slice, from the length on: the reservation and the loop.
\* Every element of lib.rs reads a byte or more, so a length too large to
\* count ends where the input runs out.
v0_decode_elements(T, d, len, host) ==
  IF capacity_overflow(len, size_of(T, host)) THEN Panic("capacity overflow", d)
  ELSE v0_decode_loop(T, d, IF Small(len) THEN AsNat(len) ELSE Len(d.bytes) + 1, <<>>, host)

\* lib.rs decode_slice, from the two words of the prefix on: their quotient
\* is the length.
v0_decode_len(T, total_bytes, bytes_per_element, host) ==
  IF bytes_per_element.kind # "Ok" THEN bytes_per_element
  ELSE IF bytes_per_element.val = Num(0, host.ptr)
  THEN Panic("attempt to divide by zero", bytes_per_element.d)
  ELSE v0_decode_elements(T, bytes_per_element.d,
                          Div(total_bytes.val, bytes_per_element.val), host)

\* lib.rs decode_slice, from the first word of the prefix on.
v0_decode_per_element(T, total_bytes, host) ==
  IF total_bytes.kind # "Ok" THEN total_bytes
  ELSE v0_decode_len(T, total_bytes, v0_decode_usize(total_bytes.d, host), host)

\* lib.rs ByteDecoder::decode_slice::<T>
v0_decode_slice(T, d, host) == v0_decode_per_element(T, v0_decode_usize(d, host), host)

\* String::from_utf16(&data).unwrap()
unwrap_from_utf16(data) ==
  IF data.kind # "Ok" THEN data
  ELSE IF from_utf16([i \in 1..Len(data.val) |-> AsNat(data.val[i])]).ok
  THEN Ok(from_utf16([i \in 1..Len(data.val) |-> AsNat(data.val[i])]).s, data.d)
  ELSE Panic("unwrap on an Err value", data.d)

\* lib.rs ByteDecoder::decode_string
v0_decode_string(d, host) == unwrap_from_utf16(v0_decode_slice(Ty("u16"), d, host))

\* lib.rs Deserializer::decode of each type
v0_decode(T, d, host) ==
  CASE T.k \in ScalarNames -> v0_decode_scalar(d, T.k, host)
    [] T.k \in {"usize", "isize"} -> v0_decode_usize(d, host)
    [] T.k = "string" -> v0_decode_string(d, host)
    [] T.k = "vec" -> v0_decode_slice(T.of, d, host)

\* lib.rs FromBytes::from_bytes
v0_from_bytes(T, bytes, host) == v0_decode(T, v0_ByteDecoder_new(bytes, host), host)

\* ---------------------------------------------------------- v2/decoder.rs
\* A read that moves the cursor whether or not the bytes are there.
v2_read_bytes_moving(d, N, type_name) ==
  IF d.index + N <= Len(d.bytes)
  THEN Ok(SubSeq(d.bytes, d.index + 1, d.index + N),
          [Logged(d, type_name, TRUE) EXCEPT !.index = @ + N])
  ELSE Err(not_enough_bytes(type_name, d.index),
           [Logged(d, type_name, FALSE) EXCEPT !.index = @ + N])

\* v2 ByteDecoder::read_bytes::<N>(type_name)
v2_read_bytes(d, N, type_name) ==
  IF d.index + N <= Len(d.bytes)
  THEN Ok(SubSeq(d.bytes, d.index + 1, d.index + N),
          [Logged(d, type_name, TRUE) EXCEPT !.index = @ + N])
  ELSE Err(not_enough_bytes(type_name, d.index), Logged(d, type_name, FALSE))

\* v2 decode_u8 .. decode_f64: T::from_le_bytes(self.read_bytes::<N>("T")?)
v2_decode_scalar(d, name) ==
  LET r == v2_read_bytes(d, size_of_scalar(name), name)
  IN IF r.kind = "Ok" THEN [r EXCEPT !.val = from_bytes_le(@)] ELSE r

\* A decode_bool that looks at the lowest bit of the byte alone.
v2_decode_low_bit(T, d, host) ==
  LET r == v2_decode_scalar(d, CASE T.k = "usize" -> "u64"
                                 [] T.k = "isize" -> "i64"
                                 [] T.k = "bool" -> "u8"
                                 [] OTHER -> T.k)
  IN CASE r.kind # "Ok" -> r
       [] T.k \in {"usize", "isize"} -> [r EXCEPT !.val = Cast(@, host.ptr)]
       [] T.k = "bool" -> [r EXCEPT !.val = (@[0] % 2 = 1)]
       [] OTHER -> r

\* v2 Decoder::decode_usize, decode_isize and decode_bool (the trait defaults)
v2_decode(T, d, host) ==
  LET r == v2_decode_scalar(d, CASE T.k = "usize" -> "u64"
                                 [] T.k = "isize" -> "i64"
                                 [] T.k = "bool" -> "u8"
                                 [] OTHER -> T.k)
  IN CASE r.kind # "Ok" -> r
       [] T.k \in {"usize", "isize"} -> [r EXCEPT !.val = Cast(@, host.ptr)]
       [] T.k = "bool" -> [r EXCEPT !.val = (@[0] # 0)]
       [] OTHER -> r

\* v2 Deserializer::IS_PRIMITIVE: true for the scalars, usize, isize and
\* bool, the conjunction of its components for a tuple, false otherwise.
RECURSIVE IS_PRIMITIVE(_)
IS_PRIMITIVE(T) ==
  CASE T.k \in ScalarNames \cup {"usize", "isize", "bool"} -> TRUE
    [] T.k = "tuple" -> \A i \in DOMAIN T.fields : IS_PRIMITIVE(T.fields[i])
    [] OTHER -> FALSE

\* x divided by ten, digit by digit from the most significant one: the
\* quotient's digits k.. and the remainder, given the remainder carried in.
RECURSIVE DivTen(_, _, _)
DivTen(x, k, carry) ==
  IF k < 0 THEN [q |-> <<>>, r |-> carry]
  ELSE LET cur == carry * 256 + x[k]
           rest == DivTen(x, k - 1, cur % 10)
       IN [q |-> rest.q \o <<cur \div 10>>, r |-> rest.r]

\* The decimal digits of an integer, as format!("{}", len) writes them.
RECURSIVE Decimal(_)
Decimal(x) ==
  LET d == DivTen(x, Width(x) - 1, 0)
      q == [k \in 0..(Width(x) - 1) |-> d.q[k + 1]]
  IN IF \A k \in DOMAIN q : q[k] = 0 THEN ToString(d.r)
     ELSE Decimal(q) \o ToString(d.r)

\* std::any::type_name::<T>()
RECURSIVE type_name(_)
RECURSIVE type_names(_)
type_names(Ts) ==
  IF Len(Ts) = 1 THEN type_name(Ts[1])
  ELSE type_name(Ts[1]) \o ", " \o type_names(Tail(Ts))
type_name(T) ==
  CASE T.k = "string" -> "alloc::string::String"
    [] T.k = "vec" -> "alloc::vec::Vec<" \o type_name(T.of) \o ">"
    [] T.k = "map" -> "std::collections::hash::map::HashMap<"
                        \o type_names(<<T.key, T.val>>) \o ">"
    [] T.k = "tuple" -> "(" \o type_names(T.fields) \o ")"
    [] T.k = "entry" -> "binary_serializer::v2::common::MapEntry<"
                          \o type_names(T.fields) \o ">"
    [] OTHER -> T.k

\* format!("[{}; {}]", type_name::<T>(), len)
array_name(T, len) == "[" \o type_name(T) \o "; " \o Decimal(len) \o "]"

\* v2 Decoder::decode_value::<T>: T::decode(self).  The decoder is the
\* ByteDecoder, whose decode_slice checks the bounds first (checked), or one
\* that keeps the decode_slice of the trait.
RECURSIVE v2_decode_value(_, _, _, _)

\* v2: for _ in 0..len { vec.push(T::decode(self)?) }, as decode_loop: n
\* elements are still to decode; v2_push is the loop from the result r of
\* the next element's decode on.
RECURSIVE v2_decode_loop(_, _, _, _, _, _)
v2_push(T, r, n, vec, host, checked) ==
  IF r.kind # "Ok" THEN r
  ELSE v2_decode_loop(T, r.d, n - 1, Append(vec, r.val), host, checked)
v2_decode_loop(T, d, n, vec, host, checked) ==
  IF n = 0 THEN Ok(vec, d)
  ELSE v2_push(T, v2_decode_value(T, d, host, checked), n, vec, host, checked)

\* v2 decode_slice from the length on: Vec::with_capacity(len) and the loop.
\* A len too large to count fails at the element the input runs out at.
v2_with_capacity(T, len, host, checked) ==
  IF capacity_overflow(len.val, size_of(T, host)) THEN Panic("capacity overflow", len.d)
  ELSE v2_decode_loop(T, len.d,
         IF Small(len.val) THEN AsNat(len.val) ELSE Len(len.d.bytes) + 1, <<>>, host, checked)

\* v2 Decoder::decode_slice::<T>, the default of the trait: the loop alone.
v2_default_decode_slice(T, d, host) ==
  LET len == v2_decode(Ty("usize"), d, host) IN
  IF len.kind # "Ok" THEN len ELSE v2_with_capacity(T, len, host, FALSE)

\* A bounds check that also refuses the input that ends where the slice ends.
v2_decode_slice_strict(T, d, host) ==
  LET len == v2_decode(Ty("usize"), d, host) IN
  IF len.kind # "Ok" THEN len
  ELSE IF ~capacity_overflow(len.val, size_of(T, host))
          /\ (~Small(len.val) \/ len.d.index + AsNat(len.val) * size_of(T, host) >= Len(d.bytes))
  THEN Err(not_enough_bytes(array_name(T, len.val), len.d.index), len.d)
  ELSE v2_with_capacity(T, len, host, TRUE)

\* v2 ByteDecoder::decode_slice::<T>: the length, the reservation, one bounds
\* check for len * T::SIZE bytes (T::SIZE is size_of::<T>()), then the loop;
\* the zero-copy branch is commented out.  A len too large to count ends
\* past every input.
v2_decode_slice(T, d, host) ==
  LET len == v2_decode(Ty("usize"), d, host) IN
  IF len.kind # "Ok" THEN len
  ELSE IF ~capacity_overflow(len.val, size_of(T, host))
          /\ (~Small(len.val) \/ len.d.index + AsNat(len.val) * size_of(T, host) > Len(d.bytes))
  THEN Err(not_enough_bytes(array_name(T, len.val), len.d.index), len.d)
  ELSE v2_with_capacity(T, len, host, TRUE)

\* String::from_utf16(&data).map_err(DecoderError::InvalidUTF16)
map_err_from_utf16(data) ==
  IF data.kind # "Ok" THEN data
  ELSE IF from_utf16([i \in 1..Len(data.val) |-> AsNat(data.val[i])]).ok
  THEN Ok(from_utf16([i \in 1..Len(data.val) |-> AsNat(data.val[i])]).s, data.d)
  ELSE Err(InvalidUTF16, data.d)

\* for entry in entries { map.insert(entry.0, entry.1) }
insert_entries(entries) ==
  IF entries.kind # "Ok" THEN entries
  ELSE Ok(insert_all(<<>>, entries.val), entries.d)

\* self.decode_slice::<T>() of the decoder in use
v2_decode_slice_of(T, d, host, checked) ==
  IF checked THEN v2_decode_slice(T, d, host) ELSE v2_default_decode_slice(T, d, host)

\* The tuple decoder and MapEntry::decode of v2: decode_value()? for each
\* component in order; v2_next_field is the rest from the result r of a
\* component's decode on.
RECURSIVE v2_decode_fields(_, _, _, _, _)
v2_next_field(Ts, r, acc, host, checked) ==
  IF r.kind # "Ok" THEN r
  ELSE v2_decode_fields(Tail(Ts), r.d, Append(acc, r.val), host, checked)
v2_decode_fields(Ts, d, acc, host, checked) ==
  IF Ts = <<>> THEN Ok(acc, d)
  ELSE v2_next_field(Ts, v2_decode_value(Head(Ts), d, host, checked), acc, host, checked)

\* The element type decode_slice is called with for a value of T.
v2_element(T) ==
  CASE T.k = "string" -> Ty("u16")
    [] T.k = "vec" -> T.of
    [] T.k = "map" -> MapEntry(T.key, T.val)

\* v2 Decoder::decode_string and decode_map::<K, V> (the trait defaults),
\* from the result of their decode_slice on; Vec<T> is that result.
v2_from_slice(T, data) ==
  CASE T.k = "string" -> map_err_from_utf16(data)
    [] T.k = "vec" -> data
    [] T.k = "map" -> insert_entries(data)

v2_decode_value(T, d, host, checked) ==
  CASE T.k \in {"string", "vec", "map"} ->
         v2_from_slice(T, v2_decode_slice_of(v2_element(T), d, host, checked))
    [] T.k \in {"tuple", "entry"} -> v2_decode_fields(T.fields, d, <<>>, host, checked)
    [] OTHER -> v2_decode(T, d, host)

\* ------------------------------------------------------- the types in use
\* The derived types of binary_serializer/tests/derive.rs and of
\* binary_serializer/src/lib.rs.
Unit == StructOf(<<>>)
Tuple == StructOf(<<Ty("u32"), Ty("u32")>>)
Enum == EnumOf(<< <<>>, <<Ty("u32"), Ty("u32")>>, <<Ty("u32"), Ty("u32")>> >>)
Fields == StructOf(<<Unit, Tuple, VecOf(Enum)>>)
Data == StructOf(<<Ty("string"), Ty("u32"), VecOf(Ty("u8"))>>)
\* struct Data { text, number, list } as a struct with named fields; Data
\* above is the tuple struct of the same field types.
NamedData == NamedOf(<<"text", "number", "list">>, Data.fields)

\* The scalar types a decoder is asked for, and those encoder.rs encodes
\* (it has no bool).
DecodeTypes == {Ty(n) : n \in ScalarNames \cup {"usize", "isize", "bool"}}
EncodeTypes == {Ty(n) : n \in ScalarNames \cup {"usize", "isize"}}

\* A value of a scalar type whose bytes are all different.
Distinct(T, host) ==
  LET w == IF T.k \in {"usize", "isize"} THEN host.ptr ELSE size_of_scalar(T.k)
  IN [k \in 0..(w - 1) |-> k + 1]

EnumTuple == [variant |-> 1, fields |-> <<Num(69, 4), Num(420, 4)>>]
EnumStruct == [variant |-> 2, fields |-> <<Num(69, 4), Num(420, 4)>>]
\* Enum::B(2, 3) of tests/enum_derive.rs
EnumB == [variant |-> 1, fields |-> <<Num(2, 4), Num(3, 4)>>]

\* The values given to to_bytes: those of the tests, and one of each shape.
Samples(host) ==
  << [ty |-> Ty("u8"), val |-> Num(7, 1)],
    [ty |-> Ty("u8"), val |-> Num(255, 1)],
    [ty |-> Ty("i8"), val |-> Num(0, 1)],
    [ty |-> Ty("i8"), val |-> Num(129, 1)],
    [ty |-> Ty("u16"), val |-> Num(258, 2)],
    [ty |-> Ty("u32"), val |-> Num(69, 4)],
    [ty |-> Ty("i64"), val |-> Num(420, 8)],
    [ty |-> Ty("usize"), val |-> Num(3, host.ptr)],
    [ty |-> Ty("string"), val |-> <<84, 101>>],
    [ty |-> Ty("string"), val |-> <<128512>>],
    [ty |-> Ty("string"), val |-> <<>>],
    [ty |-> MapOf(Ty("u8"), Ty("u16")), val |-> [map |-> <<>>, seed |-> 0]],
    [ty |-> VecOf(Ty("u8")), val |-> <<Num(4, 1), Num(2, 1), Num(0, 1)>>],
    [ty |-> VecOf(Ty("u8")), val |-> <<>>],
    [ty |-> VecOf(Ty("u32")), val |-> <<Num(69, 4)>>],
    [ty |-> VecOf(Unit), val |-> << <<>>, <<>> >>],
    [ty |-> VecOf(Ty("string")), val |-> << <<84, 101>>, <<120>> >>],
    [ty |-> VecOf(Enum),
     val |-> [i \in 1..9 |-> IF i < 9 THEN [variant |-> 0, fields |-> <<>>] ELSE EnumTuple]],
    [ty |-> TupleOf(<<Ty("u8"), Ty("u16")>>), val |-> <<Num(1, 1), Num(258, 2)>>],
    [ty |-> MapOf(Ty("u8"), Ty("u16")),
     val |-> [map |-> (Num(1, 1) :> Num(258, 2)) @@ (Num(2, 1) :> Num(3, 2)), seed |-> 0]],
    [ty |-> MapOf(Ty("u8"), Ty("u16")),
     val |-> [map |-> (Num(1, 1) :> Num(258, 2)) @@ (Num(2, 1) :> Num(3, 2)), seed |-> 1]],
    [ty |-> Unit, val |-> <<>>],
    [ty |-> Tuple, val |-> <<Num(69, 4), Num(420, 4)>>],
    [ty |-> Enum, val |-> [variant |-> 0, fields |-> <<>>]],
    [ty |-> Enum, val |-> EnumTuple],
    [ty |-> Enum, val |-> EnumStruct],
    [ty |-> Enum, val |-> EnumB],
    [ty |-> Fields,
     val |-> << <<>>, <<Num(69, 4), Num(420, 4)>>, <<EnumTuple, EnumStruct>> >>],
    [ty |-> Data,
     val |-> << <<84, 101, 120, 116>>, Num(69, 4),
                <<Num(4, 1), Num(2, 1), Num(0, 1)>> >>],
    [ty |-> NamedData,
     val |-> [text |-> <<84, 101, 120, 116>>, number |-> Num(69, 4),
              list |-> <<Num(4, 1), Num(2, 1), Num(0, 1)>>]] >>

\* Two values are equal as the program compares them: a map by its entries.
ValueEq(T, decoded, original) ==
  IF T.k = "map" THEN decoded = original.map ELSE decoded = original

\* --------------------------------------------------- inputs from outside
LE(n, w) == to_bytes_le(Num(n, w))
BE(n, w) == to_bytes_be(Num(n, w))
Fill(b, n) == [i \in 1..n |-> b]
Count1To(n) == [i \in 1..n |-> i]

\* Byte strings handed to from_bytes with the type to decode them as: length
\* prefixes and variant indices of every size, in either byte order, with
\* more, fewer or exactly the bytes they announce.
Cases ==
  << [ty |-> VecOf(Ty("u8")), bytes |-> LE(3, 8) \o <<4, 2, 0>>],
    [ty |-> VecOf(Ty("u8")), bytes |-> BE(2, 8) \o <<4, 2, 0>>],
    [ty |-> VecOf(Ty("u8")), bytes |-> LE(5, 8) \o <<4, 2>>],
    [ty |-> VecOf(Ty("u8")), bytes |-> Fill(255, 8) \o <<1>>],
    [ty |-> VecOf(Ty("u8")), bytes |-> Fill(0, 4) \o <<1, 0, 0, 0, 7>>],
    [ty |-> VecOf(Ty("u16")), bytes |-> Fill(0, 7) \o <<64, 1, 2>>],
    [ty |-> VecOf(Ty("u16")), bytes |-> Fill(0, 7) \o <<63, 1, 2>>],
    [ty |-> VecOf(Unit), bytes |-> Fill(255, 8)],
    [ty |-> VecOf(VecOf(Ty("u8"))), bytes |-> LE(2, 8) \o LE(1, 8) \o <<9>> \o LE(2, 8) \o <<8>>],
    [ty |-> Ty("string"), bytes |-> Fill(255, 8) \o <<84, 0>>],
    [ty |-> Ty("string"), bytes |-> LE(2, 8) \o <<84, 0, 0, 216>>],
    [ty |-> MapOf(Ty("u8"), Ty("u16")), bytes |-> Fill(255, 8) \o <<1, 2, 3>>],
    [ty |-> MapOf(Ty("u8"), Ty("u16")), bytes |-> LE(3, 8) \o <<1, 2, 1, 2, 3, 0, 1, 4, 0>>],
    [ty |-> Enum, bytes |-> LE(3, 8) \o LE(69, 4) \o LE(420, 4)],
    [ty |-> Enum, bytes |-> BE(3, 8) \o BE(69, 4) \o BE(420, 4)],
    [ty |-> Enum, bytes |-> Fill(255, 8) \o LE(69, 4)],
    [ty |-> Enum, bytes |-> Fill(0, 4) \o <<1, 0, 0, 0>> \o LE(69, 4)],
    [ty |-> Enum, bytes |-> LE(1, 8) \o LE(2, 4) \o LE(3, 4)],
    [ty |-> Tuple, bytes |-> Fill(0, 16)],
    [ty |-> TupleOf(<<Ty("u16"), Ty("u128")>>), bytes |-> Fill(0, 16)],
    [ty |-> Fields,
     bytes |-> LE(69, 4) \o LE(420, 4) \o LE(2, 8)
               \o LE(1, 8) \o LE(69, 4) \o LE(420, 4)
               \o LE(2, 8) \o LE(69, 4) \o LE(420, 4)],
    [ty |-> Data,
     bytes |-> BE(2, 8) \o BE(84, 2) \o BE(101, 2) \o BE(69, 4) \o BE(3, 8) \o <<4, 2, 0>>],
    [ty |-> Ty("string"), bytes |-> LE(1, 8) \o <<0, 220>>],
    [ty |-> Ty("string"), bytes |-> LE(3, 8) \o <<84, 0, 61, 216, 0, 222>>],
    [ty |-> Ty("string"), bytes |-> BE(2, 8) \o <<216, 61, 0, 84>>],
    [ty |-> VecOf(Ty("string")), bytes |-> LE(2, 8) \o LE(0, 8) \o LE(1, 8) \o <<84, 0, 61>>],
    [ty |-> VecOf(TupleOf(<<Ty("u16"), Ty("u128")>>)), bytes |-> LE(1, 8) \o Count1To(18)] >>

\* Inputs given to from_bytes of lib.rs, whose sequences start with two
\* words: strings with and without unpaired surrogates, a zero second word,
\* a sequence of sequences, two words of all ones.
V0Cases ==
  << [ty |-> Ty("string"), bytes |-> LE(4, 8) \o LE(2, 8) \o <<84, 0, 0, 216>>],
    [ty |-> Ty("string"), bytes |-> LE(2, 8) \o LE(2, 8) \o <<0, 220>>],
    [ty |-> Ty("string"), bytes |-> LE(6, 8) \o LE(2, 8) \o <<84, 0, 61, 216, 0, 222>>],
    [ty |-> Ty("string"), bytes |-> Fill(0, 16)],
    [ty |-> VecOf(Ty("u8")), bytes |-> Fill(255, 16) \o <<1>>],
    [ty |-> VecOf(Ty("u8")), bytes |-> LE(3, 8) \o LE(1, 8) \o <<4, 2, 0>>],
    [ty |-> VecOf(VecOf(Ty("u8"))),
     bytes |-> LE(34, 8) \o LE(17, 8) \o LE(1, 8) \o LE(1, 8) \o <<9>>
               \o LE(1, 8) \o LE(1, 8) \o <<8>>],
    [ty |-> Ty("u32"), bytes |-> <<1, 2, 3, 4>>] >>

\* The buffers a decoder is built over for single scalar reads.
ScalarInputs == {Count1To(0), Count1To(3), Count1To(9), Count1To(17), <<0, 1, 2>>,
                 <<7>> \o LE(1, 8) \o <<65, 0>>}

\* The types decode_value is called with on a live decoder.
ValueTypes == {VecOf(Ty("u8")), Ty("string"), MapOf(Ty("u8"), Ty("u16"))}

\* The element types and the inputs decode_slice of v2 is called with: the
\* sequence inputs above, read as a sequence of each element type.
SliceTypes ==
  {Ty("u8"), Ty("u16"), Ty("u32"), Ty("usize"), Ty("bool"),
   Ty("string"), VecOf(Ty("u8")), MapOf(Ty("u8"), Ty("u16")),
   TupleOf(<<Ty("u8"), Ty("u8")>>), TupleOf(<<Ty("u16"), Ty("u128")>>)}
SliceInputs == {i \in DOMAIN Cases : Cases[i].ty.k = "vec"}

\* ---------------------------------------------------------------- state
VARIABLES
  host,   \* the build target the program was compiled for
  enc,    \* a live ByteEncoder
  prev,   \* the encoder's buffer before its last call
  wire,   \* the last value given to to_bytes, and the bytes it returned
          \* (panicked: the call unwound and returned none; endian: the
          \* byte order the caller means the bytes to have, which to_bytes
          \* of encoder.rs and of lib.rs does not take)
  dec,    \* a live ByteDecoder
  out,    \* what the last decode call returned
  call    \* the last call made: op, and what it was given

vars == <<host, enc, prev, wire, dec, out, call>>

Call(op, ty, endian, src, full, before, arg) ==
  [op |-> op, ty |-> ty, endian |-> endian, src |-> src, full |-> full,
   before |-> before, arg |-> arg]

Returned(r) == [kind |-> r.kind, val |-> r.val, err |-> r.err]

Init ==
  /\ host \in Hosts
  /\ enc = ByteEncoder_new
  /\ prev = <<>>
  /\ wire = [ty |-> Ty("none"), val |-> <<>>, bytes |-> <<>>, panicked |-> FALSE,
             endian |-> "Little"]
  /\ dec = ByteDecoder_new(<<>>, "Little")
  /\ out = [kind |-> "None", val |-> <<>>, err |-> NoError]
  /\ call = Call("init", Ty("none"), "Little", "", FALSE, 0, <<>>)

\* value.to_bytes()
ToBytes ==
  /\ call.op = "init"
  /\ \E i \in DOMAIN Samples(host), endian \in Endians : LET s == Samples(host)[i] IN
       /\ wire' = [ty |-> s.ty, val |-> s.val, bytes |-> to_bytes(s.ty, s.val, host),
                   panicked |-> encode(s.ty, s.val, ByteEncoder_new, host).panic,
                   endian |-> endian]
       /\ call' = Call("to_bytes", s.ty, endian, "", FALSE, 0, s.val)
  /\ UNCHANGED <<host, enc, prev, dec, out>>

\* The non-zero bytes an encoder may write for true.
TrueBytes == {1, 255}

\* value.to_bytes() of a bool
BoolToBytes ==
  /\ call.op = "init"
  /\ \E value \in BOOLEAN, t \in TrueBytes, endian \in Endians :
       /\ wire' = [ty |-> Ty("bool"), val |-> value,
                   bytes |-> encode_bool(ByteEncoder_new, value, t).bytes,
                   panicked |-> FALSE, endian |-> endian]
       /\ call' = Call("to_bytes", Ty("bool"), endian, "", FALSE, 0, value)
  /\ UNCHANGED <<host, enc, prev, dec, out>>

\* value.to_bytes() of lib.rs
ToBytesV0 ==
  /\ call.op = "init"
  /\ \E i \in {j \in DOMAIN Samples(host) : v0_Serializer(Samples(host)[j].ty)} :
       LET s == Samples(host)[i]
           r == v0_encode(s.ty, s.val, ByteEncoder_new, host)
       IN /\ wire' = [ty |-> s.ty, val |-> s.val,
                      bytes |-> IF r.panic THEN <<>> ELSE r.bytes, panicked |-> r.panic,
                      endian |-> "Little"]
          /\ call' = Call("to_bytes_v0", s.ty, "Little", "", FALSE, 0, s.val)
  /\ UNCHANGED <<host, enc, prev, dec, out>>

\* T::from_bytes(&bytes[..cut], endian) on the bytes to_bytes returned
FromBytesWire ==
  /\ call.op = "to_bytes"
  /\ \E endian \in Endians, cut \in 0..Len(wire.bytes) :
       LET r == from_bytes(wire.ty, SubSeqOrEmpty(wire.bytes, 1, cut), endian, host) IN
       /\ dec' = r.d
       /\ out' = Returned(r)
       /\ call' = Call("from_bytes", wire.ty, endian, "wire", cut = Len(wire.bytes), 0, <<>>)
  /\ UNCHANGED <<host, enc, prev, wire>>

\* The bytes that follow an encoding in a longer buffer.
Trailing == {<<170>>, Fill(255, 9), LE(1, 8) \o <<0, 7>>}

\* T::from_bytes(&[to_bytes(v), s].concat(), endian), endian the byte order
\* the bytes were meant to have
FromBytesTrailing ==
  /\ call.op = "to_bytes"
  /\ ~wire.panicked
  /\ \E s \in Trailing :
       LET r == from_bytes(wire.ty, wire.bytes \o s, wire.endian, host) IN
       /\ dec' = r.d
       /\ out' = Returned(r)
       /\ call' = Call("from_bytes", wire.ty, wire.endian, "trailing", TRUE, 0, s)
  /\ UNCHANGED <<host, enc, prev, wire>>

\* T::from_bytes(&bytes[..cut], endian) on bytes that came from elsewhere
FromBytesCase ==
  /\ call.op = "init"
  /\ \E i \in DOMAIN Cases, endian \in Endians : \E cut \in 0..Len(Cases[i].bytes) :
       LET c == Cases[i] IN
       LET r == from_bytes(c.ty, SubSeqOrEmpty(c.bytes, 1, cut), endian, host) IN
       /\ dec' = r.d
       /\ out' = Returned(r)
       /\ call' = Call("from_bytes", c.ty, endian, "case", cut = Len(c.bytes), 0, <<>>)
  /\ UNCHANGED <<host, enc, prev, wire>>

\* T::from_bytes(bytes[..cut]) of lib.rs on the bytes to_bytes of lib.rs gave
FromBytesV0Wire ==
  /\ call.op = "to_bytes_v0"
  /\ ~wire.panicked
  /\ \E cut \in 0..Len(wire.bytes) :
       LET r == v0_from_bytes(wire.ty, SubSeqOrEmpty(wire.bytes, 1, cut), host) IN
       /\ dec' = r.d
       /\ out' = Returned(r)
       /\ call' = Call("from_bytes_v0", wire.ty, host.endian, "wire",
                       cut = Len(wire.bytes), 0, <<>>)
  /\ UNCHANGED <<host, enc, prev, wire>>

\* T::from_bytes(bytes[..cut]) of lib.rs on bytes that came from elsewhere
FromBytesV0Case ==
  /\ call.op = "init"
  /\ \E i \in DOMAIN V0Cases : \E cut \in 0..Len(V0Cases[i].bytes) :
       LET c == V0Cases[i] IN
       LET r == v0_from_bytes(c.ty, SubSeqOrEmpty(c.bytes, 1, cut), host) IN
       /\ dec' = r.d
       /\ out' = Returned(r)
       /\ call' = Call("from_bytes_v0", c.ty, host.endian, "case",
                       cut = Len(c.bytes), 0, <<>>)
  /\ UNCHANGED <<host, enc, prev, wire>>

\* ByteDecoder::new(bytes, endian), of decoder.rs ("new") or of v2 ("new_v2")
NewDecoder ==
  /\ call.op = "init"
  /\ \E bytes \in ScalarInputs, endian \in Endians, op \in {"new", "new_v2"} :
       /\ dec' = ByteDecoder_new(bytes, endian)
       /\ call' = Call(op, Ty("none"), endian, "", FALSE, 0, <<>>)
  /\ UNCHANGED <<host, enc, prev, wire, out>>

\* decoder.decode_u8() .. decode_f64(), decode_usize(), decode_isize(),
\* decode_bool() on the live decoder of decoder.rs
DecodeScalar ==
  /\ call.op \in {"new", "decode"}
  /\ Len(dec.log) < MaxReads
  /\ \E T \in DecodeTypes :
       LET r == decode(T, dec, host) IN
       /\ dec' = r.d
       /\ out' = Returned(r)
       /\ call' = Call("decode", T, dec.endian, "", FALSE, dec.index, <<>>)
  /\ UNCHANGED <<host, enc, prev, wire>>

\* decoder.decode_value::<T>() of a sequence, a string or a map on the live
\* decoder of decoder.rs, after the calls before it returned
DecodeValue ==
  /\ call.op \in {"new", "decode", "decode_value"}
  /\ out.kind \notin {"Panic", "Hang"}
  /\ Len(dec.log) < MaxReads
  /\ \E T \in ValueTypes :
       LET r == decode(T, dec, host) IN
       /\ dec' = r.d
       /\ out' = Returned(r)
       /\ call' = Call("decode_value", T, dec.endian, "", FALSE, dec.index, <<>>)
  /\ UNCHANGED <<host, enc, prev, wire>>

\* The same calls on the live decoder of v2/decoder.rs
DecodeScalarV2 ==
  /\ call.op \in {"new_v2", "decode_v2"}
  /\ Len(dec.log) < MaxReads
  /\ \E T \in DecodeTypes :
       LET r == v2_decode(T, dec, host) IN
       /\ dec' = r.d
       /\ out' = Returned(r)
       /\ call' = Call("decode_v2", T, dec.endian, "", FALSE, dec.index, <<>>)
  /\ UNCHANGED <<host, enc, prev, wire>>

\* decoder.decode_bool() on a new decoder, of decoder.rs ("decode_bool") or
\* of v2 ("decode_bool_v2"), over the byte b and one byte more
DecodeBool ==
  /\ call.op = "init"
  /\ \E b \in Byte, endian \in Endians, op \in {"decode_bool", "decode_bool_v2"} :
       LET d == ByteDecoder_new(<<b, 170>>, endian)
           r == IF op = "decode_bool" THEN decode_bool(d) ELSE v2_decode(Ty("bool"), d, host)
       IN /\ dec' = r.d
          /\ out' = Returned(r)
          /\ call' = Call(op, Ty("bool"), endian, "", FALSE, 0, b)
  /\ UNCHANGED <<host, enc, prev, wire>>

\* decoder.decode_slice::<T>() on a new decoder of v2 over bytes[..cut]
DecodeSliceV2 ==
  /\ call.op = "init"
  /\ \E i \in SliceInputs, T \in SliceTypes, endian \in Endians :
     \E cut \in 0..Len(Cases[i].bytes) :
       LET d == ByteDecoder_new(SubSeqOrEmpty(Cases[i].bytes, 1, cut), endian)
           r == v2_decode_slice(T, d, host)
       IN /\ dec' = r.d
          /\ out' = Returned(r)
          /\ call' = Call("decode_slice_v2", T, endian, "case", cut = Len(Cases[i].bytes), 0, <<>>)
  /\ UNCHANGED <<host, enc, prev, wire>>

\* encoder.encode_u8(x) .. encode_f64(x), encode_usize(x), encode_isize(x) on
\* the live encoder; endian is the byte order the caller means the bytes to
\* have, which no encode call of encoder.rs takes.
EncodeScalar ==
  /\ call.op \in {"init", "encode", "encode_slice"}
  /\ Len(enc.bytes) < MaxEncLen
  /\ \E T \in EncodeTypes, endian \in Endians :
       /\ enc' = encode(T, Distinct(T, host), enc, host)
       /\ call' = Call("encode", T, endian, "", FALSE, Len(enc.bytes), Distinct(T, host))
  /\ prev' = enc.bytes
  /\ UNCHANGED <<host, wire, dec, out>>

\* encoder.encode_slice(&values) on the live encoder
EncodeSlice ==
  /\ call.op \in {"init", "encode"}
  /\ Len(enc.bytes) < MaxEncLen
  /\ \E i \in {j \in DOMAIN Samples(host) : Samples(host)[j].ty.k = "vec"}, endian \in Endians :
       LET s == Samples(host)[i] IN
       /\ enc' = encode_slice(s.ty.of, s.val, enc, host)
       /\ call' = Call("encode_slice", s.ty.of, endian, "", FALSE, Len(enc.bytes), s.val)
  /\ prev' = enc.bytes
  /\ UNCHANGED <<host, wire, dec, out>>

Next ==
  \/ ToBytes
  \/ ToBytesV0
  \/ BoolToBytes
  \/ FromBytesWire
  \/ FromBytesCase
  \/ FromBytesTrailing
  \/ FromBytesV0Wire
  \/ FromBytesV0Case
  \/ NewDecoder
  \/ DecodeScalar
  \/ DecodeValue
  \/ DecodeScalarV2
  \/ DecodeSliceV2
  \/ DecodeBool
  \/ EncodeScalar
  \/ EncodeSlice

Spec == Init /\ [][Next]_vars

\* ================================================================ claims
\* The wire width of each scalar as the specification lists it.
WireWidth(name) ==
  CASE name \in {"u8", "i8", "bool"} -> 1
    [] name \in {"u16", "i16"} -> 2
    [] name \in {"u32", "i32", "f32"} -> 4
    [] name \in {"u64", "i64", "f64", "usize", "isize"} -> 8
    [] name \in {"u128", "i128"} -> 16

\* The bytes of a w-byte integer in a byte order: most significant first for
\* Big, least significant first for Little.
Ordered(x, endian) ==
  [i \in 1..Width(x) |-> IF endian = "Big" THEN x[Width(x) - i] ELSE x[i - 1]]

\* The bytes the last encoder call put at the end of the buffer.
Appended == SubSeqOrEmpty(enc.bytes, Len(prev) + 1, Len(enc.bytes))

\* The bytes the last decoder call moved the cursor over.
Consumed == SubSeqOrEmpty(dec.bytes, call.before + 1, dec.index)

\* C1: round trip: from_bytes of the whole of to_bytes(v), under either
\* endianness, returns Ok(v).
C1_RoundTrip ==
  (call.op = "from_bytes" /\ call.src = "wire" /\ call.full)
    => (out.kind = "Ok" /\ ValueEq(wire.ty, out.val, wire.val))

\* C2: truncation safety: from_bytes of a strict prefix of to_bytes(v) returns
\* Err(NotEnoughBytes), and no read reaches past the prefix.
C2_TruncationSafety ==
  (call.op = "from_bytes" /\ call.src = "wire" /\ ~call.full)
    => /\ out.kind = "Err"
       /\ out.err.kind = "NotEnoughBytes"
       /\ \A i \in DOMAIN dec.log :
            dec.log[i].ok => dec.log[i].at + WireWidth(dec.log[i].type_name) <= Len(dec.bytes)

\* The fewest bytes one element of a type takes on the wire.
RECURSIVE MinWire(_)
MinWire(T) ==
  CASE T.k \in {"string", "vec", "map", "enum"} -> 8
    [] T.k \in {"tuple", "struct", "named", "entry"} ->
         SumSeq([i \in 1..Len(T.fields) |-> MinWire(T.fields[i])])
    [] OTHER -> WireWidth(T.k)

ElementOf(T) ==
  CASE T.k = "vec" -> T.of
    [] T.k = "string" -> Ty("u16")
    [] T.k = "map" -> MapEntry(T.key, T.val)

\* The 64-bit number the first eight bytes of the input hold in the decoder's
\* byte order.
Leading == from_bytes_of(dec.endian, SubSeq(dec.bytes, 1, 8))

\* A 64-bit number is larger than a number the model can count to.
Above(x, n) == ~Small(x) \/ AsNat(x) > n

\* The input's length prefix announces more elements than its bytes can hold.
Overlong ==
  /\ call.op = "from_bytes" /\ call.src = "case"
  /\ call.ty.k \in {"vec", "string", "map"}
  /\ Len(dec.bytes) >= 8
  /\ MinWire(ElementOf(call.ty)) > 0
  /\ Above(Leading, (Len(dec.bytes) - 8) \div MinWire(ElementOf(call.ty)))

\* C3: malformed length: decode_slice, decode_string and decode_map return
\* Err(NotEnoughBytes) for every length prefix that announces more elements
\* than the input holds, up to 2^64-1; they do not panic.
C3_MalformedLength ==
  Overlong => (out.kind = "Err" /\ out.err.kind = "NotEnoughBytes")

\* The primitive read a scalar decode performs: usize, isize and bool are
\* read as u64, i64 and u8.
ReadName(name) ==
  CASE name = "usize" -> "u64"
    [] name = "isize" -> "i64"
    [] name = "bool" -> "u8"
    [] OTHER -> name

\* C4 as stated: a scalar decode with cursor + w > length returns
\* NotEnoughBytes with the cursor as index and the name of the type the
\* caller asked for, and leaves the cursor where it was.
C4_NamesTheTypeAskedFor ==
  (call.op = "decode" /\ call.before + WireWidth(call.ty.k) > Len(dec.bytes))
    => /\ out.kind = "Err"
       /\ out.err = not_enough_bytes(call.ty.k, call.before)
       /\ dec.index = call.before

\* C4 amended: a scalar decode with cursor + w > length returns NotEnoughBytes
\* with the cursor as index and the name of the primitive read it performs
\* (u64 for usize, i64 for isize, u8 for bool), and leaves the cursor where it
\* was.
C4_FailedScalarDecode ==
  (call.op = "decode" /\ call.before + WireWidth(call.ty.k) > Len(dec.bytes))
    => /\ out.kind = "Err"
       /\ out.err = not_enough_bytes(ReadName(call.ty.k), call.before)
       /\ dec.index = call.before

C4_Witness ==
  /\ call.op = "decode" /\ call.ty.k = "usize"
  /\ call.before > 0
  /\ call.before + 8 > Len(dec.bytes)
  /\ out.err.type_name = "u64"

\* C5: fixed wire widths: a successful scalar decode moves the cursor by the
\* scalar's wire width and a scalar encode grows the buffer by it; usize and
\* isize take 8 bytes whatever the size of usize on the target.
C5_FixedWireWidths ==
  /\ (call.op = "decode" /\ out.kind = "Ok")
       => dec.index = call.before + WireWidth(call.ty.k)
  /\ call.op = "encode"
       => Len(enc.bytes) = Len(prev) + WireWidth(call.ty.k)

C5_Witness ==
  /\ call.op = "encode" /\ call.ty.k = "usize"
  /\ host.ptr = 4
  /\ Len(prev) > 0
  /\ Len(enc.bytes) = Len(prev) + 8

\* C6: invalid enum guard: decoding the enum of three variants from an input
\* whose leading 8-byte index is 3 or more fails with the invalid-variant
\* error, whatever follows the index.
C6_InvalidEnumGuard ==
  (/\ call.op = "from_bytes" /\ call.src = "case"
   /\ call.ty = Enum
   /\ Len(dec.bytes) >= 8
   /\ Above(Leading, Len(Enum.variants) - 1))
    => (out.kind = "Err" /\ out.err = custom("Invalid Enum"))

\* C7: first-failure propagation: when a primitive read fails inside
\* from_bytes, it is the last read made, from_bytes returns its error
\* unchanged, and the error's index is the sum of the widths of the reads
\* before it.
C7_FirstFailurePropagation ==
  call.op = "from_bytes" =>
    LET log == dec.log
        failed == {i \in DOMAIN log : ~log[i].ok}
        last == log[Len(log)]
    IN /\ failed # {} =>
            /\ failed = {Len(log)}
            /\ out.kind = "Err"
            /\ out.err = not_enough_bytes(last.type_name, last.at)
            /\ last.at = SumSeq([i \in 1..(Len(log) - 1) |-> WireWidth(log[i].type_name)])
       /\ out.err.kind = "NotEnoughBytes" => failed # {}

C7_Witness ==
  /\ call.op = "from_bytes" /\ call.src = "case"
  /\ call.ty = Fields
  /\ out.kind = "Err"
  /\ out.err = not_enough_bytes("u32", 40)
  /\ Len(dec.log) = 8

\* C8: encode byte order: a multi-byte scalar encoded under endianness E is
\* appended as its bytes in order E, whatever the target's own byte order.
C8_EncodeByteOrder ==
  (call.op = "encode" /\ WireWidth(call.ty.k) > 1)
    => Appended = Ordered(Cast(call.arg, WireWidth(call.ty.k)), call.endian)

\* C9: decode byte order: a decoder built with endianness E returns, for a
\* multi-byte scalar, the value whose bytes in order E are the bytes read.
C9_DecodeByteOrder ==
  (/\ call.op \in {"decode", "decode_v2"}
   /\ call.ty.k \in ScalarNames
   /\ WireWidth(call.ty.k) > 1
   /\ out.kind = "Ok")
    => Ordered(out.val, dec.endian) = Consumed

\* C10: sequence wire layout: encode_slice of n elements appends one 8-byte
\* prefix holding n, then the n element encodings in order, and nothing else.
C10_SequenceWireLayout ==
  call.op = "encode_slice" =>
    LET elements == encode_each(call.ty, call.arg, ByteEncoder_new, host).bytes IN
    /\ Len(Appended) = 8 + Len(elements)
    /\ SubSeq(Appended, 1, 8) \in {Ordered(Num(Len(call.arg), 8), e) : e \in Endians}
    /\ SubSeqOrEmpty(Appended, 9, Len(Appended)) = elements
    /\ SubSeqOrEmpty(enc.bytes, 1, Len(prev)) = prev

\* The scalars of a sequence, each in a byte order, one after the other.
RECURSIVE Flat(_, _)
Flat(xs, endian) ==
  IF xs = <<>> THEN <<>> ELSE Ordered(Head(xs), endian) \o Flat(Tail(xs), endian)

\* C11: enum wire layout: to_bytes of a value of the derived enum under e is
\* the variant's declaration index as an 8-byte integer, then the variant's
\* fields in declared order, and nothing else (16 bytes for B(2, 3): 1, 2,
\* 3), and from_bytes of those bytes under e returns the value.
C11_EnumWireLayout ==
  (call.op = "from_bytes" /\ call.src = "wire" /\ call.full /\ wire.ty = Enum)
    => /\ wire.bytes = Ordered(Num(wire.val.variant, 8), call.endian)
                         \o Flat(wire.val.fields, call.endian)
       /\ out.kind = "Ok"
       /\ out.val = wire.val

\* The fields of a value of a struct with named fields, in declared order.
Positional(T, value) == [i \in 1..Len(T.names) |-> value[T.names[i]]]

\* The encodings of the fields of a struct, each encoded on its own, one
\* after the other.
RECURSIVE EachAlone(_, _)
EachAlone(Ts, values) ==
  IF Ts = <<>> THEN <<>>
  ELSE to_bytes(Head(Ts), Head(values), host) \o EachAlone(Tail(Ts), Tail(values))

\* C12: struct wire layout: a struct with named fields encodes to the same
\* bytes as the tuple struct of the same field types and values, both being
\* the field encodings in declaration order and nothing else, and decoding
\* any input as the one returns what decoding it as the other returns, field
\* for field.
C12_StructWireLayout ==
  (call.op = "from_bytes" /\ call.src = "wire" /\ wire.ty.k = "named")
    => LET T == wire.ty
           tuple == StructOf(T.fields)
           r == from_bytes(tuple, dec.bytes, call.endian, host)
       IN /\ wire.bytes = to_bytes(tuple, Positional(T, wire.val), host)
          /\ wire.bytes = EachAlone(T.fields, Positional(T, wire.val))
          /\ out.kind = r.kind
          /\ out.err = r.err
          /\ dec.index = r.d.index
          /\ out.kind = "Ok" => Positional(T, out.val) = r.val

C12_Witness ==
  /\ call.op = "from_bytes" /\ call.src = "wire" /\ call.full
  /\ wire.ty = NamedData
  /\ Len(wire.bytes) > 16
  /\ out.kind = "Ok"
  /\ out.val.number = Num(69, 4)

\* C13: encoding is total: to_bytes returns a byte sequence for every value
\* it is given, empty sequences and strings, sequences of elements of
\* different or zero encoded size included; it never panics.
C13_EncodingIsTotal ==
  call.op \in {"to_bytes", "to_bytes_v0"} => ~wire.panicked

\* The encoding of a value holds a multi-byte scalar whose bytes are not
\* their own reversal: a scalar that is one, the structs and enum variants of
\* the tests with 69 and 420 in them, a non-zero variant index, a non-zero
\* sequence length.
HoldsUnevenScalar(T, value) ==
  \/ T.k \in ScalarNames /\ Ordered(value, "Big") # Ordered(value, "Little")
  \/ T.k \in {"string", "vec"} /\ Len(value) > 0
  \/ T \in {Tuple, Fields}
  \/ T = Enum /\ value.variant # 0

\* C14: cross-endian divergence: a value whose encoding holds a multi-byte
\* scalar that is not its own reversal, encoded under one endianness and
\* decoded under the other, does not come back as Ok(original).
C14_CrossEndianDivergence ==
  (/\ call.op = "from_bytes" /\ call.src = "wire" /\ call.full
   /\ call.endian # wire.endian
   /\ HoldsUnevenScalar(wire.ty, wire.val))
    => ~(out.kind = "Ok" /\ ValueEq(wire.ty, out.val, wire.val))

\* C15: single-byte endian invariance: a u8, i8 or bool encoded under one
\* endianness and decoded under any endianness, the same or the other, comes
\* back as Ok of the value.
C15_SingleByteInvariance ==
  (/\ call.op = "from_bytes" /\ call.src = "wire" /\ call.full
   /\ wire.ty.k \in {"u8", "i8", "bool"})
    => (out.kind = "Ok" /\ out.val = wire.val)

C15_Witness ==
  /\ call.op = "from_bytes" /\ call.src = "wire" /\ call.full
  /\ wire.ty.k = "bool"
  /\ wire.bytes = <<255>>
  /\ call.endian # wire.endian
  /\ call.endian # host.endian
  /\ out.kind = "Ok"
  /\ out.val = TRUE

\* What the element-by-element decode_slice of v2 returns for the input the
\* last decode_slice call of v2 was given.
Naive == v2_default_decode_slice(call.ty, ByteDecoder_new(dec.bytes, dec.endian), host)

\* T is one of the scalar primitive types: an integer, a float or bool.
ScalarPrimitive(T) == T.k \in ScalarNames \cup {"usize", "isize", "bool"}

\* The last call was decode_slice of v2 for a primitive element type, on a
\* decoder of the target's own endianness.
BulkCall ==
  /\ call.op = "decode_slice_v2"
  /\ IS_PRIMITIVE(call.ty)
  /\ ScalarPrimitive(call.ty)
  /\ dec.endian = host.endian

\* The length the decoders of v2 read from the first eight bytes of the
\* input: least significant byte first, narrowed to usize.
LeadingV2 == Cast(from_bytes_le(SubSeq(dec.bytes, 1, 8)), host.ptr)

Refused ==
  /\ Len(dec.bytes) >= 8
  /\ Above(LeadingV2, (Len(dec.bytes) - 8) \div size_of(call.ty, host))

WireEntry(i) ==
  [key |-> Num(dec.bytes[8 + 3 * (i - 1) + 1], 1),
   val |-> from_bytes_of(dec.endian, SubSeq(dec.bytes, 8 + 3 * (i - 1) + 2, 8 + 3 * i))]

\* C17: map decode is last-write-wins: the map decode_map returns holds the
\* keys of the decoded entries, each with the value of the last entry of that
\* key in wire order, and has as many entries as there are distinct keys.
C17_MapLastWriteWins ==
  (/\ call.op = "from_bytes" /\ call.src = "case"
   /\ call.ty = MapOf(Ty("u8"), Ty("u16"))
   /\ out.kind = "Ok")
    => LET n == AsNat(Cast(Leading, host.ptr))
           keys == {WireEntry(i).key : i \in 1..n}
           last(k) == CHOOSE i \in 1..n :
                        /\ WireEntry(i).key = k
                        /\ \A j \in (i + 1)..n : WireEntry(j).key # k
       IN /\ DOMAIN out.val = keys
          /\ \A k \in keys : out.val[k] = WireEntry(last(k)).val
          /\ Cardinality(DOMAIN out.val) = Cardinality(keys)

C17_Witness ==
  /\ call.op = "from_bytes" /\ call.src = "case"
  /\ call.ty = MapOf(Ty("u8"), Ty("u16"))
  /\ out.kind = "Ok"
  /\ AsNat(Leading) = 3
  /\ Cardinality(DOMAIN out.val) = 2
  /\ out.val[Num(1, 1)] = Num(4, 2)

\* The input of the last from_bytes call as a string: the number of code
\* units its prefix gives, whether it holds them all, and unit i.  The
\* decoder of decoder.rs reads one word and the code units in its own
\* endianness, the one of lib.rs two words and the code units in the target's.
FromV0 == call.op = "from_bytes_v0"
UnitsAt == IF FromV0 THEN 16 ELSE 8
V0Word(at) == Cast(from_bytes_of(host.endian, SubSeq(dec.bytes, at, at + 7)), host.ptr)
UnitCount == IF FromV0 THEN Div(V0Word(1), V0Word(9)) ELSE Cast(Leading, host.ptr)
HoldsUnits ==
  /\ call.op \in {"from_bytes", "from_bytes_v0"}
  /\ call.ty = Ty("string")
  /\ Len(dec.bytes) >= UnitsAt
  /\ FromV0 => V0Word(9) # Num(0, host.ptr)
  /\ Small(UnitCount)
  /\ UnitsAt + 2 * AsNat(UnitCount) <= Len(dec.bytes)
CodeUnit(i) ==
  AsNat(from_bytes_of(dec.endian,
                      SubSeq(dec.bytes, UnitsAt + 2 * i - 1, UnitsAt + 2 * i)))

\* A sequence of code units is ill-formed when it has a high surrogate that
\* no low one follows or a low surrogate that no high one precedes.
IllFormed ==
  \E i \in 1..AsNat(UnitCount) :
    \/ IsHigh(CodeUnit(i)) /\ (i = AsNat(UnitCount) \/ ~IsLow(CodeUnit(i + 1)))
    \/ IsLow(CodeUnit(i)) /\ (i = 1 \/ ~IsHigh(CodeUnit(i - 1)))

\* C18: invalid UTF-16: decode_string returns Err(InvalidUTF16) exactly when
\* the code units it decoded are ill-formed and the string they encode
\* otherwise; an ill-formed payload causes no panic and no replacement.
C18_InvalidUTF16 ==
  HoldsUnits =>
    /\ IllFormed => (out.kind = "Err" /\ out.err = InvalidUTF16)
    /\ ~IllFormed =>
         /\ out.kind = "Ok"
         /\ encode_utf16(out.val) = [i \in 1..AsNat(UnitCount) |-> CodeUnit(i)]

\* C19: boolean codec: encoding a bool appends exactly one byte, 0 for false
\* and a non-zero byte for true; decoding a bool consumes one byte and
\* returns false for 0 and true for every value 1..255.
C19_BooleanCodec ==
  /\ (call.op = "to_bytes" /\ call.ty = Ty("bool"))
       => /\ Len(wire.bytes) = 1
          /\ wire.val = FALSE => wire.bytes[1] = 0
          /\ wire.val = TRUE => wire.bytes[1] # 0
  /\ call.op \in {"decode_bool", "decode_bool_v2"}
       => /\ out.kind = "Ok"
          /\ dec.index = 1
          /\ call.arg = 0 => out.val = FALSE
          /\ call.arg \in 1..255 => out.val = TRUE

C19_Witness ==
  /\ call.op = "decode_bool_v2"
  /\ call.arg = 254
  /\ dec.bytes = <<254, 170>>
  /\ dec.index = 1
  /\ out.kind = "Ok"
  /\ out.val = TRUE

\* C20: cursor invariant: in every reachable state of a ByteDecoder, after
\* any sequence of successful and failed scalar, slice, string, map and value
\* decodes, the cursor is at least 0 and at most the length of the input.
C20_CursorInvariant ==
  0 <= dec.index /\ dec.index <= Len(dec.bytes)

C20_Witness ==
  /\ call.op = "decode_value"
  /\ call.ty = VecOf(Ty("u8"))
  /\ call.before = 1
  /\ out.kind = "Err"
  /\ dec.bytes = Count1To(9)
  /\ dec.index = 9

\* A value of T lies in memory as it lies on the wire: T is a scalar
\* primitive as wide in memory as on the wire.
SameLayout(T) ==
  /\ ScalarPrimitive(T)
  /\ size_of(T, host) = WireWidth(T.k)

\* C21: fast-path gating: IS_PRIMITIVE is true exactly for the scalar
\* primitive types whose in-memory layout equals their wire layout and false
\* for every composite type (tuples, strings, sequences, maps), so that
\* `endian.is_native() && T::IS_PRIMITIVE` selects the bulk reinterpretation
\* only for elements whose size and bit patterns in memory are those of the
\* wire.
C21_FastPathGating ==
  call.op = "decode_slice_v2" =>
    /\ IS_PRIMITIVE(call.ty) <=> SameLayout(call.ty)
    /\ ~ScalarPrimitive(call.ty) => ~IS_PRIMITIVE(call.ty)

\* The sequence t starts with the sequence s.
StartsWith(t, s) == Len(s) <= Len(t) /\ SubSeqOrEmpty(t, 1, Len(s)) = s

\* The encoder's buffer in the middle of the last encode_slice call: after
\* the loop over the elements, before the first Vec::insert of the prefix.
AfterElements ==
  encode_each(call.ty, call.arg, [bytes |-> prev, panic |-> FALSE], host).bytes

\* C22: append-only encode buffer: every mutation of the encoder's buffer
\* during an encode operation adds bytes at the end only: the buffer before
\* the call is a prefix of the buffer after it, and within encode_slice the
\* buffer as the elements' encodes left it is a prefix of the buffer the
\* writes of the length prefix leave; no byte already written is moved.
C22_AppendOnly ==
  /\ call.op \in {"encode", "encode_slice"} => StartsWith(enc.bytes, prev)
  /\ (call.op = "encode_slice" /\ ~enc.panic) => StartsWith(enc.bytes, AfterElements)

\* C23: self-delimiting decode: from_bytes of to_bytes(v, e) followed by any
\* bytes s returns Ok(v) and leaves the cursor at len(to_bytes(v, e)): no
\* byte of s is read and the unread rest is not rejected.
C23_SelfDelimiting ==
  (call.op = "from_bytes" /\ call.src = "trailing")
    => /\ out.kind = "Ok"
       /\ ValueEq(wire.ty, out.val, wire.val)
       /\ dec.index = Len(wire.bytes)

\* The last decode_slice call of v2 returned the error of its bounds check:
\* NotEnoughBytes for the array "[T; len]" at the index after the prefix.
Rejected ==
  /\ Len(dec.bytes) >= 8
  /\ out.kind = "Err"
  /\ out.err = not_enough_bytes(array_name(call.ty, LeadingV2), 8)

\* C24: soundness of the bulk bounds check: decode_slice of the ByteDecoder
\* of v2 rejects an input by its up-front check (cursor + count * T::SIZE >
\* length) only if the element-by-element decode of that input fails with
\* NotEnoughBytes too; an input the element-by-element decode accepts, with
\* strings, sequences, maps or padded tuples for elements, is not rejected.
C24_BoundsCheckSound ==
  call.op = "decode_slice_v2" =>
    /\ Rejected => (Naive.kind = "Err" /\ Naive.err.kind = "NotEnoughBytes")
    /\ Naive.kind = "Ok" => out.kind = "Ok"

\* The usize the decoder of lib.rs reads at the byte `at` of the bytes
\* to_bytes returned: decode_u64() as usize.
WireWord(at) ==
  Cast(from_bytes_of(host.endian, SubSeq(wire.bytes, at, at + 7)), host.ptr)

\* C25: count recovery in the two-word slice prefix: encode_slice (of lib.rs
\* and of encoder.rs) returns for every slice, empty ones and ones of
\* elements of different or zero size included, and the quotient the decoder
\* of lib.rs computes from the two words in front, total_bytes /
\* bytes_per_element, has a divisor that is not zero and is the number of
\* elements encoded; decode_slice then returns that many elements.
C25_CountRecovery ==
  /\ (call.op \in {"to_bytes", "to_bytes_v0"} /\ wire.ty.k = "vec")
       => /\ ~wire.panicked
          /\ Len(wire.bytes) >= 16
          /\ WireWord(9) # Num(0, host.ptr)
          /\ Div(WireWord(1), WireWord(9)) = Num(Len(wire.val), host.ptr)
  /\ (call.op = "from_bytes_v0" /\ call.src = "wire" /\ call.full /\ wire.ty.k = "vec")
       => /\ out.kind = "Ok"
          /\ Len(out.val) = Len(wire.val)

====
